---- MODULE Spec2Model ----
(***************************************************************************)
(* Model of the Mermaid Studio editor: the App component (source text,     *)
(* error, log, processing flag, AI fix loop) and the MermaidRenderer       *)
(* component (render effect with its isMounted flag, pan/zoom viewport).   *)
(*                                                                         *)
(* React is modelled at the granularity of one event or one promise        *)
(* continuation per step: the state updates of a handler are batched, the  *)
(* re-render commits and the effects whose dependencies changed are        *)
(* cleaned up and re-run within the same step.                             *)
(*                                                                         *)
(* Texts (source code, service responses) are sequences of one-character   *)
(* strings; error messages are atomic strings.  Log entry ids and          *)
(* timestamps (random / clock values) are left out of the entries.         *)
(* Floating-point scale values are modelled as exact rationals <<n, d>>.   *)
(***************************************************************************)
EXTENDS Integers, Sequences, FiniteSets, TLC

\* ---------------------------------------------------------------- bounds
MaxRuns == 2         \* compile runs in flight (stale ones included)
MaxLog == 1          \* entries kept in the log before it must be cleared
MaxCalls == 2        \* correction-service calls outstanding
MaxPan == 2          \* pan distance per axis explored
MaxZooms == 3        \* zoom operations since the last reset in PanZoomSpec
ViewMaxZooms == 1    \* zoom operations since the last reset in ViewSpec
AppMaxZooms == 1     \* zoom operations since the last reset in Spec

\* layouts explored (PREVIEW mounts the renderer exactly as SPLIT does)
ViewModes == {"EDITOR", "SPLIT"}

\* ----------------------------------------------------------------- texts
Range(s) == {s[i] : i \in 1..Len(s)}

Whitespace == {" ", "\n"}

RECURSIVE TrimStart(_)
TrimStart(s) ==
  IF s # <<>> /\ Head(s) \in Whitespace THEN TrimStart(Tail(s)) ELSE s

RECURSIVE TrimEnd(_)
TrimEnd(s) ==
  IF s # <<>> /\ s[Len(s)] \in Whitespace
    THEN TrimEnd(SubSeq(s, 1, Len(s) - 1))
    ELSE s

\* String.prototype.trim
Trim(s) == TrimEnd(TrimStart(s))

StartsWith(s, p) == Len(s) >= Len(p) /\ SubSeq(s, 1, Len(p)) = p

EndsWith(s, p) ==
  Len(s) >= Len(p) /\ SubSeq(s, Len(s) - Len(p) + 1, Len(s)) = p

\* the backtick character of a markdown fence
Backtick == "~"

Fence == <<Backtick, Backtick, Backtick>>
FenceMermaid == Fence \o <<"m", "e", "r", "m", "a", "i", "d">>

\* variant: the result is not trimmed after the markers are removed
cleanResponse_NoFinalTrim(text) ==
  LET t0 == Trim(text)
      t1 == IF StartsWith(t0, FenceMermaid)
              THEN SubSeq(t0, Len(FenceMermaid) + 1, Len(t0))
              ELSE IF StartsWith(t0, Fence)
                     THEN SubSeq(t0, Len(Fence) + 1, Len(t0))
                     ELSE t0
      t2 == IF EndsWith(t1, Fence)
              THEN SubSeq(t1, 1, Len(t1) - Len(Fence))
              ELSE t1
  IN  t2

\* services/gemini.ts cleanResponse
cleanResponse(text) ==
  LET t0 == Trim(text)
      t1 == IF StartsWith(t0, FenceMermaid)
              THEN SubSeq(t0, Len(FenceMermaid) + 1, Len(t0))
              ELSE IF StartsWith(t0, Fence)
                     THEN SubSeq(t0, Len(Fence) + 1, Len(t0))
                     ELSE t0
      t2 == IF EndsWith(t1, Fence)
              THEN SubSeq(t1, 1, Len(t1) - Len(Fence))
              ELSE t1
  IN  Trim(t2)

\* App.tsx INITIAL_CODE: a valid flowchart, abstracted to one valid text
INITIAL_CODE == <<"A">>

\* what the user may type into the textarea
EditorTexts == {<<"A">>, <<"X">>, <<" ">>}

\* texts that make the engine throw each kind of value
EngineTexts == {<<"A">>, <<"X">>, <<"S">>, <<"N">>, <<"R">>, <<"M">>, <<"B">>}

\* the JavaScript value undefined (a missing text, an unset variable)
undefined == <<"undefined">>

\* response.text of the correction service
ResponseTexts ==
  { undefined,
    <<>>,
    FenceMermaid \o <<"\n", "A", "\n">> \o Fence,
    <<"X">> }

\* response texts with and without fence markers: optional whitespace, an
\* optional opening marker (tagged or not), an inner text, an optional
\* closing marker, optional whitespace
FencedTexts ==
  { pad[1] \o lead \o inner \o trail \o pad[2] :
      pad \in {<< <<>>, <<>> >>, << <<" ">>, <<"\n">> >>},
      lead \in {<<>>, Fence, FenceMermaid},
      inner \in {<<>>, <<"A">>, <<"\n", "A", " ", "A", "\n">>, <<Backtick>>,
                 <<"X", " ">>, <<"A">> \o Fence \o <<"R">>},
      trail \in {<<>>, Fence} }

\* errors the correction service may reject with (message may be missing)
ServiceErrors == {[message |-> "quota exceeded"], [message |-> ""]}

\* the error fixMermaidCode throws when no API key is configured
DisabledError == [message |-> "AI features are disabled. API Key is missing."]

\* ---------------------------------------------------------------- engine
\* The render engine is external.  A thrown value is described by its type
\* (a string, an Error instance, another object, null) and by its message
\* and str fields ("" when the field is missing; for a string, message is
\* the string itself).  mermaid.parse rejects a text with an "X" (an Error),
\* an "S" (a string) or an "N" (null); mermaid.render rejects a text with an
\* "R" (an object with str), an "M" (a plain object with message only) or a
\* "B" (a plain object with message and str); every other text compiles.
NoThrow == [type |-> "none", message |-> "", str |-> ""]

mermaidParse(code) ==
  IF "X" \in Range(code)
    THEN [type |-> "Error", message |-> "Parse error", str |-> ""]
  ELSE IF "S" \in Range(code)
    THEN [type |-> "string", message |-> "Syntax error", str |-> ""]
  ELSE IF "N" \in Range(code)
    THEN [type |-> "null", message |-> "", str |-> ""]
  ELSE NoThrow

mermaidRender(code) ==
  IF "R" \in Range(code)
    THEN [type |-> "object", message |-> "", str |-> "Render error"]
  ELSE IF "M" \in Range(code)
    THEN [type |-> "object", message |-> "bad diagram", str |-> ""]
  ELSE IF "B" \in Range(code)
    THEN [type |-> "object", message |-> "bad diagram", str |-> "Lexical error"]
  ELSE NoThrow

\* the svg produced by mermaid.render: the diagram and its style rules
RenderedSvg(code) == [diagram |-> code, styles |-> <<"max-width", "font">>]

\* svg.replace(/max-width:...;/g, empty): drops every max-width rule
StripMaxWidth(svg) ==
  [svg EXCEPT !.styles = SelectSeq(svg.styles, LAMBDA st : st # "max-width")]

\* initial svgContent: the empty string
EmptySvg == [diagram |-> <<>>, styles |-> <<>>]

\* message selection of renderDiagram's catch block
CatchMessage(thrown) ==
  IF thrown.type = "string" THEN thrown.message
  ELSE IF thrown.type = "Error" THEN thrown.message
  ELSE IF thrown.str # "" THEN thrown.str
  ELSE "Unknown rendering error"

\* ----------------------------------------------------------------- state
VARIABLES
  isAIEnabled,   \* services/gemini.ts isAIEnabled (fixed at load)
  code,          \* App: DiagramSource
  error,         \* App: RenderError message or null
  logs,          \* App: sequence of log entries
  isProcessing,  \* App: processing flag
  viewMode,      \* App: EDITOR / SPLIT / PREVIEW
  prompt,        \* App: text of the generation prompt input
  showPromptInput, \* App: the prompt overlay is open
  calls,         \* outstanding fixMermaidCode / generateMermaidCode calls
  runs,          \* renderDiagram invocations whose promise is pending
  svgContent,    \* MermaidRenderer: displayed artifact
  pan,           \* MermaidRenderer: translation {x, y}
  scale,         \* MermaidRenderer: zoom factor, a rational <<n, d>>
  isDragging,    \* MermaidRenderer: drag session open
  dragStart,     \* MermaidRenderer: ref, pointer minus pan at mouse down
  zooms,         \* zoom operations applied since scale was last 1
  emitted,       \* what the last step emitted: a notification callback, a
                 \* marker for a discarded stale result / an ignored event,
                 \* the viewport event handled and its argument, or the
                 \* response text a service call resolved with
  started        \* number of renderDiagram compiles started by the last step

vars == <<isAIEnabled, code, error, logs, isProcessing, viewMode, prompt,
          showPromptInput, calls, runs, svgContent, pan, scale, isDragging,
          dragStart, zooms, emitted, started>>

gen == <<prompt, showPromptInput>>
app == <<code, error, logs, isProcessing, calls, gen>>
view == <<pan, scale, isDragging, dragStart, zooms>>

null == "null"

\* variant: only the empty string counts as "no error"
Truthy_NullIsError(e) == e # ""

\* truthiness of the error state, as tested by !error and error &&
Truthy(e) == e # null /\ e # ""

RendererMounted == viewMode \in {"SPLIT", "PREVIEW"}

LogEntry(level, message, details) ==
  [level |-> level, message |-> message, details |-> details]

NoDetails == <<>>

\* process.env.API_KEY values and the flag derived from them
ApiKeys == {undefined, <<>>, <<"u", "n", "d", "e", "f", "i", "n", "e", "d">>, <<"k">>}

AIEnabledFor(apiKey) ==
  /\ apiKey # undefined
  /\ Len(apiKey) > 0
  /\ apiKey # <<"u", "n", "d", "e", "f", "i", "n", "e", "d">>

\* --------------------------------------------------------- render effect
\* variant: the effect has no cleanup
Cleanup_Missing(rs) == rs

\* cleanup of the render effect: isMounted = false in the closure of every
\* earlier invocation.  A stale run never reaches onSuccess, so the callback
\* it captured is dropped from the state.
Cleanup(rs) == [i \in 1..Len(rs) |-> [rs[i] EXCEPT !.isMounted = FALSE, !.error = null]]

\* variant: the guard tests the text without trimming it
NewRuns_NoTrim(c, e) ==
  IF c = <<>>
    THEN <<>>
    ELSE << [code |-> c, stage |-> "parse", isMounted |-> TRUE, error |-> e] >>

\* renderDiagram(): returns at once on a blank text, otherwise awaits parse
NewRuns(c, e) ==
  IF Trim(c) = <<>>
    THEN <<>>
    ELSE << [code |-> c, stage |-> "parse", isMounted |-> TRUE, error |-> e] >>

\* variant: the effect re-runs after every commit (a notification callback
\* without a stable identity), whether or not code or error changed
EffectRuns_EveryCommit(rs, c2, e2) ==
  IF ~RendererMounted THEN rs
  ELSE Cleanup(rs) \o NewRuns(c2, e2)

\* The effect with deps [code, onError, onSuccess]: onError is stable,
\* onSuccess (handleMermaidSuccess) changes identity when error changes.
\* rs: pending runs after the step's own resolution, c2/e2: committed state.
EffectRuns(rs, c2, e2) ==
  IF ~RendererMounted THEN rs
  ELSE IF c2 = code /\ e2 = error THEN rs
  ELSE Cleanup(rs) \o NewRuns(c2, e2)

EffectStarted(c2, e2) ==
  IF RendererMounted /\ ~(c2 = code /\ e2 = error) THEN Len(NewRuns(c2, e2))
  ELSE 0

Remove(rs, i) == SubSeq(rs, 1, i - 1) \o SubSeq(rs, i + 1, Len(rs))

\* -------------------------------------------------------------- viewport
\* Euclid's algorithm, as a function so that each argument is a value
GCDOf[a \in Nat, b \in Nat] == IF b = 0 THEN a ELSE GCDOf[b, a % b]

GCD(a, b) == GCDOf[a, b]

Abs(n) == IF n < 0 THEN -n ELSE n

\* the rational n/d in lowest terms with a positive denominator
Rat(n, d) ==
  LET g == GCD(Abs(n), Abs(d))
      sgn == IF d < 0 THEN -1 ELSE 1
  IN  <<sgn * (n \div g), sgn * (d \div g)>>

RatAdd(a, b) == Rat(a[1] * b[2] + b[1] * a[2], a[2] * b[2])
RatMul(a, b) == Rat(a[1] * b[1], a[2] * b[2])
RatDiv(a, b) == Rat(a[1] * b[2], a[2] * b[1])
RatLeq(a, b) == a[1] * b[2] <= b[1] * a[2]
RatMin(a, b) == IF RatLeq(a, b) THEN a ELSE b
RatMax(a, b) == IF RatLeq(a, b) THEN b ELSE a

One == <<1, 1>>
Origin == [x |-> 0, y |-> 0]

\* the initial state of a MermaidRenderer instance (useState / useRef)
FreshRenderer ==
  /\ svgContent' = EmptySvg
  /\ pan' = Origin
  /\ scale' = One
  /\ isDragging' = FALSE
  /\ dragStart' = Origin
  /\ zooms' = 0

\* ------------------------------------------------------------------ Init
Init ==
  /\ isAIEnabled \in {AIEnabledFor(k) : k \in ApiKeys}
  /\ code = INITIAL_CODE
  /\ error = null
  /\ logs = << IF isAIEnabled
                 THEN LogEntry("INFO", "System Ready", <<"AI features are enabled.">>)
                 ELSE LogEntry("INFO", "System Ready (Offline Mode)",
                               <<"AI features are disabled">>) >>
  /\ isProcessing = FALSE
  /\ viewMode = "SPLIT"
  /\ prompt = <<>>
  /\ showPromptInput = FALSE
  /\ calls = <<>>
  /\ runs = NewRuns(INITIAL_CODE, null)
  /\ svgContent = EmptySvg
  /\ pan = Origin
  /\ scale = One
  /\ isDragging = FALSE
  /\ dragStart = Origin
  /\ zooms = 0
  /\ emitted = <<"none">>
  /\ started = 1

\* ------------------------------------------------------------ App actions
\* textarea onChange: setCode(e.target.value)
SetCode(t) ==
  /\ viewMode \in {"EDITOR", "SPLIT"}
  /\ t # code
  /\ Len(EffectRuns(runs, t, error)) <= MaxRuns
  /\ code' = t
  /\ runs' = EffectRuns(runs, t, error)
  /\ started' = EffectStarted(t, error)
  /\ emitted' = <<"none">>
  /\ UNCHANGED <<isAIEnabled, gen, error, logs, isProcessing, viewMode, calls,
                 svgContent, view>>

\* view-mode buttons: the preview pane (and MermaidRenderer in it) is
\* rendered in SPLIT and PREVIEW only, so EDITOR unmounts the renderer and
\* leaving EDITOR mounts a fresh one
SetViewMode(m) ==
  /\ m # viewMode
  /\ LET wasMounted == RendererMounted
         willMount == m \in {"SPLIT", "PREVIEW"}
     IN  IF wasMounted /\ ~willMount
           THEN /\ runs' = Cleanup(runs)
                /\ FreshRenderer
                /\ started' = 0
         ELSE IF ~wasMounted /\ willMount
           THEN /\ Len(runs \o NewRuns(code, error)) <= MaxRuns
                /\ runs' = runs \o NewRuns(code, error)
                /\ FreshRenderer
                /\ started' = Len(NewRuns(code, error))
         ELSE /\ UNCHANGED <<runs, svgContent, view>>
              /\ started' = 0
  /\ viewMode' = m
  /\ emitted' = <<"none">>
  /\ UNCHANGED <<isAIEnabled, gen, code, error, logs, isProcessing, calls>>

\* Console Clear button: setLogs([])
clearLogs ==
  /\ logs' = <<>>
  /\ emitted' = <<"none">>
  /\ started' = 0
  /\ UNCHANGED <<isAIEnabled, gen, code, error, isProcessing, viewMode, calls,
                 runs, svgContent, view>>

\* --------------------------------------------------- renderDiagram steps
\* App.handleMermaidError / handleMermaidSuccess log entries
RenderFailedEntry(msg) == LogEntry("ERROR", "Rendering Failed", <<msg>>)
RenderedEntry == LogEntry("SUCCESS", "Diagram Rendered Successfully", NoDetails)

\* a stale run (isMounted false) settles: nothing is applied
Discard(i) ==
  /\ runs' = Remove(runs, i)
  /\ emitted' = <<"discarded">>
  /\ started' = 0
  /\ UNCHANGED <<isAIEnabled, app, viewMode, svgContent, view>>

\* variant: the catch block blanks the displayed artifact
CatchPath_BlanksFrame(i, thrown) ==
  IF ~runs[i].isMounted THEN Discard(i)
  ELSE LET message == CatchMessage(thrown)
       IN  /\ Len(logs) < MaxLog
           /\ error' = message
           /\ logs' = Append(logs, RenderFailedEntry(message))
           /\ runs' = EffectRuns(Remove(runs, i), code, message)
           /\ started' = EffectStarted(code, message)
           /\ emitted' = <<"error", message>>
           /\ svgContent' = EmptySvg
           /\ UNCHANGED <<isAIEnabled, gen, code, isProcessing, calls, viewMode,
                          view>>

\* variant: the catch block does not test isMounted
CatchPath_NoMountCheck(i, thrown) ==
  LET message == CatchMessage(thrown)
  IN  /\ Len(logs) < MaxLog
      /\ error' = message
      /\ logs' = Append(logs, RenderFailedEntry(message))
      /\ runs' = EffectRuns(Remove(runs, i), code, message)
      /\ started' = EffectStarted(code, message)
      /\ emitted' = <<"error", message>>
      /\ UNCHANGED <<isAIEnabled, gen, code, isProcessing, calls, viewMode,
                     svgContent, view>>

\* catch block of renderDiagram, then App.handleMermaidError
CatchPath(i, thrown) ==
  IF ~runs[i].isMounted THEN Discard(i)
  ELSE LET message == CatchMessage(thrown)
       IN  /\ Len(logs) < MaxLog
           /\ error' = message
           /\ logs' = Append(logs, RenderFailedEntry(message))
           /\ runs' = EffectRuns(Remove(runs, i), code, message)
           /\ started' = EffectStarted(code, message)
           /\ emitted' = <<"error", message>>
           /\ UNCHANGED <<isAIEnabled, gen, code, isProcessing, calls, viewMode,
                          svgContent, view>>

\* variant: the success branch does not reset the view
SuccessPath_NoViewReset(i) ==
  IF ~runs[i].isMounted THEN Discard(i)
  ELSE LET clears == Truthy(runs[i].error)
           error2 == IF clears THEN null ELSE error
       IN  /\ clears => Len(logs) < MaxLog
           /\ svgContent' = StripMaxWidth(RenderedSvg(runs[i].code))
           /\ error' = error2
           /\ logs' = IF clears THEN Append(logs, RenderedEntry) ELSE logs
           /\ runs' = EffectRuns(Remove(runs, i), code, error2)
           /\ started' = EffectStarted(code, error2)
           /\ emitted' = <<"success">>
           /\ UNCHANGED <<isAIEnabled, gen, code, isProcessing, calls, viewMode,
                          view>>

\* the isMounted branch after mermaid.render, with App.handleMermaidSuccess
\* as captured by the effect (its error is the one of that render)
SuccessPath(i) ==
  IF ~runs[i].isMounted THEN Discard(i)
  ELSE LET clears == Truthy(runs[i].error)
           error2 == IF clears THEN null ELSE error
       IN  /\ clears => Len(logs) < MaxLog
           /\ svgContent' = StripMaxWidth(RenderedSvg(runs[i].code))
           /\ error' = error2
           /\ logs' = IF clears THEN Append(logs, RenderedEntry) ELSE logs
           /\ pan' = Origin
           /\ scale' = One
           /\ zooms' = 0
           /\ runs' = EffectRuns(Remove(runs, i), code, error2)
           /\ started' = EffectStarted(code, error2)
           /\ emitted' = <<"success">>
           /\ UNCHANGED <<isAIEnabled, gen, code, isProcessing, calls, viewMode,
                          isDragging, dragStart>>

\* await mermaid.parse(code) settles
ParseSettled(i) ==
  /\ i \in 1..Len(runs)
  /\ runs[i].stage = "parse"
  /\ LET thrown == mermaidParse(runs[i].code)
     IN  IF thrown = NoThrow
           THEN /\ runs' = [runs EXCEPT ![i].stage = "render"]
                /\ emitted' = <<"none">>
                /\ started' = 0
                /\ UNCHANGED <<isAIEnabled, app, viewMode, svgContent, view>>
           ELSE CatchPath(i, thrown)

\* await mermaid.render(id, code) settles
RenderSettled(i) ==
  /\ i \in 1..Len(runs)
  /\ runs[i].stage = "render"
  /\ LET thrown == mermaidRender(runs[i].code)
     IN  IF thrown = NoThrow THEN SuccessPath(i) ELSE CatchPath(i, thrown)

\* ---------------------------------------------------------------- handleFix
FixingEntry(e) ==
  LogEntry("INFO", "AI Attempting to Fix Syntax...", <<"Error context", e>>)
FixAppliedEntry ==
  LogEntry("SUCCESS", "Fix Applied",
           <<"The AI has updated the code. Verifying render...">>)
FixFailedEntry(msg) == LogEntry("ERROR", "Fix Failed", <<msg>>)

\* handleFix up to its await: the call to fixMermaidCode(code, error)
handleFix ==
  IF ~Truthy(error)
    THEN /\ emitted' = <<"ignored", "handleFix">>
         /\ UNCHANGED <<app, runs>>
    ELSE /\ Len(logs) < MaxLog
         /\ emitted' = <<"none">>
         /\ Len(calls) < MaxCalls
         /\ isProcessing' = TRUE
         /\ logs' = Append(logs, FixingEntry(error))
         /\ calls' = Append(calls, [kind |-> "fix"])
         /\ UNCHANGED <<code, error, runs, gen>>

\* header button "Fix with AI": disabled={!error || isProcessing}
FixButtonDisabled == ~Truthy(error) \/ isProcessing

FixButtonClick ==
  /\ isAIEnabled
  /\ IF FixButtonDisabled
       THEN /\ emitted' = <<"ignored", "handleFix">>
            /\ UNCHANGED <<app, runs>>
       ELSE handleFix
  /\ started' = 0
  /\ UNCHANGED <<isAIEnabled, viewMode, svgContent, view>>

\* variant: the toast button is rendered without the isAIEnabled test
AutoFixClick_Ungated ==
  /\ RendererMounted
  /\ Truthy(error)
  /\ handleFix
  /\ started' = 0
  /\ UNCHANGED <<isAIEnabled, viewMode, svgContent, view>>

\* error toast button "Auto-Fix": rendered in the preview pane when error
\* is set and AI is enabled; it has no disabled attribute
AutoFixClick ==
  /\ isAIEnabled
  /\ RendererMounted
  /\ Truthy(error)
  /\ handleFix
  /\ started' = 0
  /\ UNCHANGED <<isAIEnabled, viewMode, svgContent, view>>

\* fixMermaidCode resolves: cleanResponse(response.text || ''), then the
\* rest of handleFix's try block and its finally
FixResolved(i, text) ==
  /\ i \in 1..Len(calls)
  /\ calls[i].kind = "fix"
  /\ isAIEnabled
  /\ Len(logs) < MaxLog
  /\ LET fixedCode == cleanResponse(IF text = undefined THEN <<>> ELSE text)
     IN  /\ Len(EffectRuns(runs, fixedCode, error)) <= MaxRuns
         /\ code' = fixedCode
         /\ runs' = EffectRuns(runs, fixedCode, error)
         /\ started' = EffectStarted(fixedCode, error)
  /\ logs' = Append(logs, FixAppliedEntry)
  /\ isProcessing' = FALSE
  /\ calls' = Remove(calls, i)
  /\ emitted' = <<"response", text>>
  /\ UNCHANGED <<isAIEnabled, gen, error, viewMode, svgContent, view>>

\* variant: the catch block of handleFix also clears the error
FixRejected_ClearsError(i, e) ==
  /\ i \in 1..Len(calls)
  /\ calls[i].kind = "fix"
  /\ Len(logs) < MaxLog
  /\ e = DisabledError <=> ~isAIEnabled
  /\ logs' = Append(logs, FixFailedEntry(IF e.message # "" THEN e.message
                                                          ELSE "Unknown error"))
  /\ isProcessing' = FALSE
  /\ calls' = Remove(calls, i)
  /\ error' = null
  /\ runs' = EffectRuns(runs, code, null)
  /\ emitted' = <<"none">>
  /\ started' = EffectStarted(code, null)
  /\ UNCHANGED <<isAIEnabled, gen, code, viewMode, svgContent, view>>

\* variant: handleFix has no finally block, a rejected call leaves the
\* processing flag as it is
FixRejected_NoFinally(i, e) ==
  /\ i \in 1..Len(calls)
  /\ calls[i].kind = "fix"
  /\ Len(logs) < MaxLog
  /\ e = DisabledError <=> ~isAIEnabled
  /\ logs' = Append(logs, FixFailedEntry(IF e.message # "" THEN e.message
                                                          ELSE "Unknown error"))
  /\ calls' = Remove(calls, i)
  /\ emitted' = <<"none">>
  /\ started' = 0
  /\ UNCHANGED <<isAIEnabled, gen, code, error, isProcessing, runs, viewMode,
                 svgContent, view>>

\* fixMermaidCode rejects (service error, or the guard for a missing key):
\* catch block and finally of handleFix
FixRejected(i, e) ==
  /\ i \in 1..Len(calls)
  /\ calls[i].kind = "fix"
  /\ Len(logs) < MaxLog
  /\ e = DisabledError <=> ~isAIEnabled
  /\ logs' = Append(logs, FixFailedEntry(IF e.message # "" THEN e.message
                                                          ELSE "Unknown error"))
  /\ isProcessing' = FALSE
  /\ calls' = Remove(calls, i)
  /\ emitted' = <<"none">>
  /\ started' = 0
  /\ UNCHANGED <<isAIEnabled, gen, code, error, runs, viewMode, svgContent, view>>

\* ----------------------------------------------------------- handleGenerate
GeneratingEntry(p) ==
  LogEntry("INFO", "AI Generating Diagram...", <<"Type: Auto", "Prompt", p>>)
GenerationCompleteEntry == LogEntry("SUCCESS", "Generation Complete", NoDetails)
GenerationFailedEntry(msg) == LogEntry("ERROR", "Generation Failed", <<msg>>)

\* what the user may type into the prompt input
PromptTexts == {<<>>, <<"p">>}

\* header button "Generate": rendered when AI is enabled,
\* disabled={isProcessing}; toggles the prompt overlay
TogglePromptInput ==
  /\ isAIEnabled
  /\ ~isProcessing
  /\ showPromptInput' = ~showPromptInput
  /\ emitted' = <<"none">>
  /\ started' = 0
  /\ UNCHANGED <<isAIEnabled, code, error, logs, isProcessing, calls, prompt,
                 viewMode, runs, svgContent, view>>

\* prompt input onChange (the overlay is rendered when showPromptInput and
\* isAIEnabled; the input is disabled while processing)
SetPrompt(t) ==
  /\ isAIEnabled /\ showPromptInput
  /\ ~isProcessing
  /\ t # prompt
  /\ prompt' = t
  /\ emitted' = <<"none">>
  /\ started' = 0
  /\ UNCHANGED <<isAIEnabled, code, error, logs, isProcessing, calls,
                 showPromptInput, viewMode, runs, svgContent, view>>

\* handleGenerate up to its await: the call to generateMermaidCode
handleGenerate ==
  IF Trim(prompt) = <<>>
    THEN /\ emitted' = <<"ignored", "handleGenerate">>
         /\ UNCHANGED <<app, runs>>
    ELSE /\ Len(logs) < MaxLog
         /\ Len(calls) < MaxCalls
         /\ emitted' = <<"none">>
         /\ isProcessing' = TRUE
         /\ logs' = Append(logs, GeneratingEntry(prompt))
         /\ calls' = Append(calls, [kind |-> "generate"])
         /\ UNCHANGED <<code, error, runs, gen>>

\* overlay button "Create" (disabled={isProcessing}) and Enter in the
\* prompt input (disabled while processing)
GenerateClick ==
  /\ isAIEnabled /\ showPromptInput
  /\ ~isProcessing
  /\ handleGenerate
  /\ started' = 0
  /\ UNCHANGED <<isAIEnabled, viewMode, svgContent, view>>

\* generateMermaidCode resolves: cleanResponse(response.text || ''), then
\* the rest of handleGenerate's try block and its finally
GenerateResolved(i, text) ==
  /\ i \in 1..Len(calls)
  /\ calls[i].kind = "generate"
  /\ isAIEnabled
  /\ Len(logs) < MaxLog
  /\ LET newCode == cleanResponse(IF text = undefined THEN <<>> ELSE text)
     IN  /\ Len(EffectRuns(runs, newCode, error)) <= MaxRuns
         /\ code' = newCode
         /\ runs' = EffectRuns(runs, newCode, error)
         /\ started' = EffectStarted(newCode, error)
  /\ logs' = Append(logs, GenerationCompleteEntry)
  /\ showPromptInput' = FALSE
  /\ prompt' = <<>>
  /\ isProcessing' = FALSE
  /\ calls' = Remove(calls, i)
  /\ emitted' = <<"response", text>>
  /\ UNCHANGED <<isAIEnabled, error, viewMode, svgContent, view>>

\* generateMermaidCode rejects: catch block and finally of handleGenerate
GenerateRejected(i, e) ==
  /\ i \in 1..Len(calls)
  /\ calls[i].kind = "generate"
  /\ Len(logs) < MaxLog
  /\ e = DisabledError <=> ~isAIEnabled
  /\ logs' = Append(logs, GenerationFailedEntry(IF e.message # "" THEN e.message
                                                ELSE "Unknown error"))
  /\ isProcessing' = FALSE
  /\ calls' = Remove(calls, i)
  /\ emitted' = <<"none">>
  /\ started' = 0
  /\ UNCHANGED <<isAIEnabled, gen, code, error, runs, viewMode, svgContent, view>>

\* -------------------------------------------------------- viewport events
\* variant: the viewport handlers are attached only while nothing is pending
ViewFrame_IdleOnly ==
  /\ RendererMounted
  /\ runs = <<>> /\ ~isProcessing
  /\ started' = 0
  /\ UNCHANGED <<isAIEnabled, app, viewMode, runs, svgContent>>

\* every viewport event leaves App and the pipeline alone
ViewFrame ==
  /\ RendererMounted
  /\ started' = 0
  /\ UNCHANGED <<isAIEnabled, app, viewMode, runs, svgContent>>

\* onMouseDown at pointer p (clientX, clientY)
handleMouseDown(p) ==
  /\ ViewFrame
  /\ emitted' = <<"mouseDown", p>>
  /\ isDragging' = TRUE
  /\ dragStart' = [x |-> p.x - pan.x, y |-> p.y - pan.y]
  /\ UNCHANGED <<pan, scale, zooms>>

\* variant: the y coordinate is computed from the anchor's x
handleMouseMove_CopiedAxis(p) ==
  /\ ViewFrame
  /\ pan' = IF ~isDragging THEN pan
            ELSE [x |-> p.x - dragStart.x, y |-> p.y - dragStart.x]
  /\ emitted' = IF ~isDragging THEN <<"ignored", "handleMouseMove">>
                ELSE <<"mouseMove", p>>
  /\ UNCHANGED <<scale, isDragging, dragStart, zooms>>

\* onMouseMove at pointer p
handleMouseMove(p) ==
  /\ ViewFrame
  /\ pan' = IF ~isDragging THEN pan
            ELSE [x |-> p.x - dragStart.x, y |-> p.y - dragStart.y]
  /\ emitted' = IF ~isDragging THEN <<"ignored", "handleMouseMove">>
                ELSE <<"mouseMove", p>>
  /\ UNCHANGED <<scale, isDragging, dragStart, zooms>>

\* variant: the handler toggles the session instead of closing it
handleMouseUp_Toggles ==
  /\ ViewFrame
  /\ emitted' = <<"mouseUp">>
  /\ isDragging' = ~isDragging
  /\ UNCHANGED <<pan, scale, dragStart, zooms>>

\* onMouseUp and onMouseLeave
handleMouseUp ==
  /\ ViewFrame
  /\ emitted' = <<"mouseUp">>
  /\ isDragging' = FALSE
  /\ UNCHANGED <<pan, scale, dragStart, zooms>>

MinScale == <<1, 10>>
MaxScale == <<5, 1>>
ZoomFactor == <<6, 5>>

\* Math.min(Math.max(0.1, r), 5), a function of the value r
Clamp[r \in Int \X Int] == RatMin(RatMax(MinScale, r), MaxScale)

\* newScale of handleWheel: scale + (-deltaY * 0.001), clamped to [0.1, 5]
WheelScale(s, deltaY) == Clamp[RatAdd(s, Rat(-deltaY, 1000))]

\* onWheel
handleWheel(deltaY) ==
  /\ ViewFrame
  /\ emitted' = <<"wheel", deltaY>>
  /\ scale' = WheelScale(scale, deltaY)
  /\ zooms' = zooms + 1
  /\ UNCHANGED <<pan, isDragging, dragStart>>

\* variant: zoomIn without the upper clamp
zoomIn_NoClamp ==
  /\ ViewFrame
  /\ emitted' = <<"zoomIn", scale>>
  /\ scale' = RatMul(scale, ZoomFactor)
  /\ zooms' = zooms + 1
  /\ UNCHANGED <<pan, isDragging, dragStart>>

\* toolbar buttons; emitted records the button and the scale it was
\* pressed at
zoomIn ==
  /\ ViewFrame
  /\ emitted' = <<"zoomIn", scale>>
  /\ scale' = RatMin(MaxScale, RatMul(scale, ZoomFactor))
  /\ zooms' = zooms + 1
  /\ UNCHANGED <<pan, isDragging, dragStart>>

\* variant: zoomOut subtracts a fixed step instead of dividing
zoomOut_Subtracts ==
  /\ ViewFrame
  /\ emitted' = <<"zoomOut", scale>>
  /\ scale' = RatMax(MinScale, RatAdd(scale, <<-1, 5>>))
  /\ zooms' = zooms + 1
  /\ UNCHANGED <<pan, isDragging, dragStart>>

zoomOut ==
  /\ ViewFrame
  /\ emitted' = <<"zoomOut", scale>>
  /\ scale' = RatMax(MinScale, RatDiv(scale, ZoomFactor))
  /\ zooms' = zooms + 1
  /\ UNCHANGED <<pan, isDragging, dragStart>>

\* variant: the reset forgets the translation
resetView_ScaleOnly ==
  /\ ViewFrame
  /\ emitted' = <<"resetView">>
  /\ scale' = One
  /\ zooms' = 0
  /\ UNCHANGED <<pan, isDragging, dragStart>>

resetView ==
  /\ ViewFrame
  /\ emitted' = <<"resetView">>
  /\ scale' = One
  /\ pan' = Origin
  /\ zooms' = 0
  /\ UNCHANGED <<isDragging, dragStart>>

\* pointer positions and wheel deltas explored
Pointers == {[x |-> 0, y |-> 0], [x |-> 1, y |-> 2]}
WheelDeltas == {-4900, 4900}

PanWithin(b) ==
  /\ pan'.x >= -b /\ pan'.x <= b
  /\ pan'.y >= -b /\ pan'.y <= b

\* viewport events explored to a pan distance b and a zoom depth z
ViewNext(b, z) ==
  \/ \E p \in Pointers : handleMouseDown(p)
  \/ \E p \in Pointers : handleMouseMove(p) /\ PanWithin(b)
  \/ handleMouseUp
  \/ \E d \in WheelDeltas : zooms < z /\ handleWheel(d)
  \/ zooms < z /\ zoomIn
  \/ zooms < z /\ zoomOut
  \/ resetView

\* -------------------------------------------------------------------- Next
\* the renderer with its parent's source edits
RendererNext ==
  \/ \E t \in EditorTexts : SetCode(t)
  \/ \E i \in 1..MaxRuns : ParseSettled(i)
  \/ \E i \in 1..MaxRuns : RenderSettled(i)
  \/ clearLogs

\* the AI correction loop
FixNext ==
  \/ FixButtonClick
  \/ AutoFixClick
  \/ \E i \in 1..MaxCalls, t \in ResponseTexts : FixResolved(i, t)
  \/ \E i \in 1..MaxCalls, e \in ServiceErrors \cup {DisabledError} :
        FixRejected(i, e)

\* the AI correction loop and the layout
AppNext ==
  \/ \E m \in ViewModes : SetViewMode(m)
  \/ FixNext

\* Spec explores the whole application with the viewport moved by the
\* toolbar only; ViewSpec explores every viewport event
AppViewNext ==
  \/ zooms < AppMaxZooms /\ zoomIn
  \/ resetView

Next == RendererNext \/ AppNext \/ AppViewNext

Spec == Init /\ [][Next]_vars

\* offline mode (no API key): the editor and the viewport
ViewInit == Init /\ ~isAIEnabled

ViewNextAll == RendererNext \/ ViewNext(MaxPan, ViewMaxZooms)

ViewSpec == ViewInit /\ [][ViewNextAll]_vars

\* one renderer instance with a fixed source: its compile and every
\* viewport event
PanZoomNext ==
  \/ \E i \in 1..MaxRuns : ParseSettled(i)
  \/ \E i \in 1..MaxRuns : RenderSettled(i)
  \/ ViewNext(MaxPan, MaxZooms)

PanZoomSpec == ViewInit /\ [][PanZoomNext]_vars

\* the two AI loops (generation and correction) with the editor
GenerateNext ==
  \/ TogglePromptInput
  \/ \E t \in PromptTexts : SetPrompt(t)
  \/ GenerateClick
  \/ \E i \in 1..MaxCalls, t \in ResponseTexts : GenerateResolved(i, t)
  \/ \E i \in 1..MaxCalls, e \in ServiceErrors \cup {DisabledError} :
        GenerateRejected(i, e)

AINext == RendererNext \/ FixNext \/ GenerateNext

AISpec == Init /\ [][AINext]_vars

\* one renderer (offline) fed with sources for every kind of engine failure
EngineNext ==
  \/ \E t \in EngineTexts : SetCode(t)
  \/ \E i \in 1..MaxRuns : ParseSettled(i)
  \/ \E i \in 1..MaxRuns : RenderSettled(i)
  \/ clearLogs

EngineSpec == ViewInit /\ [][EngineNext]_vars

\* a correction call for the broken source X is outstanding (the state
\* after the failure was reported, the log cleared and Auto-Fix clicked) and
\* resolves with a fenced text
CleanInit ==
  /\ isAIEnabled = TRUE
  /\ code = <<"X">>
  /\ error = "Parse error"
  /\ logs = <<FixingEntry("Parse error")>>
  /\ isProcessing = TRUE
  /\ viewMode = "SPLIT"
  /\ prompt = <<>>
  /\ showPromptInput = FALSE
  /\ calls = <<[kind |-> "fix"]>>
  /\ runs = <<>>
  /\ svgContent = EmptySvg
  /\ pan = Origin
  /\ scale = One
  /\ isDragging = FALSE
  /\ dragStart = Origin
  /\ zooms = 0
  /\ emitted = <<"none">>
  /\ started = 0

CleanNext ==
  \/ clearLogs
  \/ \E i \in 1..MaxCalls, t \in FencedTexts : FixResolved(i, t)
  \/ \E i \in 1..MaxRuns : ParseSettled(i)
  \/ \E i \in 1..MaxRuns : RenderSettled(i)

CleanSpec == CleanInit /\ [][CleanNext]_vars

\* the pipeline under the assumption that every compile call resolves: the
\* editor (valid, parse-failing, render-failing and blank sources), the
\* layout and the renderer's compiles.  Each pending mermaid.parse /
\* mermaid.render promise eventually settles (weak fairness of the
\* continuation); the log of the model is bounded, so it is emptied whenever
\* it is full, which stands for the room the real array always has.
SettleTexts == {<<"A">>, <<"X">>, <<"R">>, <<" ">>}

CompileSettles == \E i \in 1..MaxRuns : ParseSettled(i) \/ RenderSettled(i)

SettleNext ==
  \/ \E t \in SettleTexts : SetCode(t)
  \/ \E m \in ViewModes : SetViewMode(m)
  \/ CompileSettles
  \/ clearLogs

SettleSpec ==
  /\ ViewInit
  /\ [][SettleNext]_vars
  /\ WF_vars(CompileSettles)
  /\ WF_vars(clearLogs)

\* ================================================================ claims
\* C1: a compile result of a superseded source is never applied once a newer
\* run has started: a stale settlement changes nothing (artifact, error,
\* viewport, log, no notification), every applied result is that of the
\* current source, and when no compile is pending the artifact/error state is
\* the outcome of compiling the current source only.
C1_LatestSourceOnly ==
  [][LET thrown(c) == IF mermaidParse(c) # NoThrow THEN mermaidParse(c)
                      ELSE mermaidRender(c)
         artifact(c) == StripMaxWidth(RenderedSvg(c))
     IN  /\ emitted' = <<"discarded">> =>
              UNCHANGED <<code, error, logs, svgContent, pan, scale>>
         /\ emitted' = <<"success">> => svgContent' = artifact(code')
         /\ emitted'[1] = "error" =>
              /\ thrown(code') # NoThrow
              /\ error' = CatchMessage(thrown(code'))
         /\ (runs' = <<>> /\ viewMode' # "EDITOR" /\ Trim(code') # <<>>) =>
              IF thrown(code') = NoThrow
                THEN svgContent' = artifact(code') /\ error' = null
                ELSE error' = CatchMessage(thrown(code'))
    ]_vars

\* C1 witness: the first run (source A) was superseded by X before it
\* settled, its result has just been discarded (nothing displayed), and the
\* run of X is still pending.
C1_Witness ==
  /\ emitted = <<"discarded">>
  /\ code = <<"X">>
  /\ svgContent = EmptySvg
  /\ Len(runs) = 1 /\ runs[1].isMounted /\ runs[1].code = <<"X">>
  /\ error = null

\* C2: at every moment at most one correction-service call is outstanding.
C2_SingleFlight == Len(calls) <= 1

\* C3: scale stays within [0.1, 5.0] in every reachable state.
C3_ScaleBounded == RatLeq(MinScale, scale) /\ RatLeq(scale, MaxScale)

\* C3 witness: both zoom mechanisms have run into a bound (two zoom
\* operations since the last reset ended on the upper clamp).
C3_Witness == scale = MaxScale /\ zooms >= 2

\* C4: a successful non-stale compile replaces the artifact by the output
\* for the current source, leaves no error (null, or the empty message the
\* application treats as none), resets the viewport to {0, 0, 1} and emits
\* the success notification, all in the same step.
C4_SuccessUnit ==
  [][emitted' = <<"success">> =>
       /\ svgContent' = StripMaxWidth(RenderedSvg(code))
       /\ error' \in {null, ""}
       /\ pan' = [x |-> 0, y |-> 0]
       /\ scale' = <<1, 1>>
    ]_vars

\* C4 witness: a success that cleared an error (its log entry is the last
\* one) while a drag session that had moved the viewport is still open.
C4_Witness ==
  /\ emitted = <<"success">>
  /\ logs # <<>> /\ logs[Len(logs)] = RenderedEntry
  /\ isDragging /\ dragStart # Origin
  /\ pan = Origin /\ scale = One

\* C5: a failed non-stale compile sets the error to the failure message,
\* emits a failure notification with that message (logged once), and leaves
\* the displayed artifact and the viewport unchanged.
C5_FailureKeepsFrame ==
  [][emitted'[1] = "error" =>
       /\ error' = emitted'[2]
       /\ logs' = Append(logs, RenderFailedEntry(emitted'[2]))
       /\ UNCHANGED <<svgContent, pan, scale>>
    ]_vars

\* C5 witness: a failure reported while an artifact is displayed in a
\* panned and zoomed viewport.
C5_Witness ==
  /\ emitted = <<"error", "Parse error">>
  /\ svgContent # EmptySvg
  /\ pan # Origin /\ scale # One

\* C6: a correction call that resolves with empty text is a failure: the
\* fix is applied (source replaced, "Fix Applied" logged) only with a
\* non-empty text.
C6_EmptyTextIsFailure ==
  [][(Len(calls') < Len(calls) /\ logs' = Append(logs, FixAppliedEntry)) =>
       code' # <<>>
    ]_vars

\* C7: a correction call that fails appends exactly one "Fix Failed" entry
\* carrying the service's message (or the fallback text when the error has
\* none) and leaves source, error, artifact, viewport and compile runs as
\* they were.
C7_FixFailureCaught ==
  [][(Len(calls') < Len(calls) /\ logs' # Append(logs, FixAppliedEntry)) =>
       /\ \E e \in ServiceErrors :
            logs' = Append(logs, [level |-> "ERROR", message |-> "Fix Failed",
                                  details |-> << IF e.message # "" THEN e.message
                                                 ELSE "Unknown error" >>])
       /\ UNCHANGED <<code, error, svgContent, pan, scale, runs>>
    ]_vars

\* C7 witness: the last log entry is the failure of a correction call, with
\* the broken source, its error, the artifact and a zoomed viewport in place.
C7_Witness ==
  /\ logs # <<>>
  /\ logs[Len(logs)] = FixFailedEntry("quota exceeded")
  /\ code = <<"X">> /\ error = "Parse error"
  /\ svgContent # EmptySvg /\ scale # One

\* C8: with no error present a fix request does nothing: no step from such
\* a state starts a correction call or raises the processing flag, and the
\* ignored request leaves source, error, log, flag and calls unchanged.
C8_NoErrorNoFix ==
  [][(error = null \/ error = "") =>
       /\ Len(calls') <= Len(calls)
       /\ isProcessing' => isProcessing
       /\ emitted' = <<"ignored", "handleFix">> =>
            UNCHANGED <<code, error, logs, isProcessing, calls>>
    ]_vars

\* C8 witness: the fix button was clicked with no error and nothing in
\* progress, and the request was ignored.
C8_Witness ==
  /\ emitted = <<"ignored", "handleFix">>
  /\ error = null
  /\ ~isProcessing /\ calls = <<>>

\* C9: a change of the source to an empty or whitespace-only text starts no
\* compile, emits no notification and keeps artifact, error and viewport.
C9_BlankSourceInert ==
  [][(code' # code /\ Trim(code') = <<>>) =>
       /\ started' = 0
       /\ \A i \in 1..Len(runs') : ~runs'[i].isMounted
       /\ emitted'[1] \notin {"success", "error"}
       /\ UNCHANGED <<svgContent, error, pan, scale>>
    ]_vars

\* C9 witness: the source is whitespace-only while the error of the previous
\* source and the last good artifact are still in place in a zoomed viewport.
C9_Witness ==
  /\ code = <<" ">>
  /\ error = "Parse error"
  /\ svgContent # EmptySvg /\ scale # One
  /\ started = 0

\* C10: every text returned by the correction service becomes the source
\* and starts a new compile run of it in the step that logs "Fix Applied"
\* (stated here for a displayed renderer and a non-empty text).
C10_FixStartsRun ==
  [][(logs' = Append(logs, FixAppliedEntry) /\ RendererMounted /\ code' # <<>>) =>
       /\ started' = 1
       /\ \E i \in 1..Len(runs') :
            /\ runs'[i].isMounted
            /\ runs'[i].code = code'
            /\ runs'[i].stage = "parse"
    ]_vars

\* C11: without an access credential no service call is ever started (none
\* is outstanding, the processing flag stays down), the error of a source
\* that does not compile stays for as long as that source is in place, and
\* the source changes only
\* by an edit in the text area (no log entry, no call); with or without a
\* credential a call starts only in a step of a user request (AI enabled, the
\* request logged, the flag raised) that settles no compile and emits no
\* notification.
C11_ManualRecoveryOnly ==
  /\ [](~isAIEnabled => (calls = <<>> /\ ~isProcessing))
  /\ [][ /\ (/\ ~isAIEnabled
             /\ error # null /\ error # ""
             /\ mermaidParse(code) # NoThrow \/ mermaidRender(code) # NoThrow
             /\ code' = code) =>
            error' = error
         /\ (~isAIEnabled /\ code' # code) =>
            (code' \in EditorTexts /\ logs' = logs)
         /\ Len(calls') > Len(calls) =>
            /\ isAIEnabled
            /\ isProcessing'
            /\ \/ /\ calls'[Len(calls')].kind = "fix"
                  /\ error # null /\ error # ""
                  /\ logs' = Append(logs, FixingEntry(error))
               \/ /\ calls'[Len(calls')].kind = "generate"
                  /\ showPromptInput /\ Trim(prompt) # <<>>
                  /\ logs' = Append(logs, GeneratingEntry(prompt))
            /\ emitted' = <<"none">>
            /\ UNCHANGED <<code, error, runs, svgContent>>
      ]_vars

\* C11 witness: offline, the source X has failed, the failure is logged, and
\* every compile of it has settled: the error stays with nothing in flight.
C11_Witness ==
  /\ ~isAIEnabled
  /\ code = <<"X">> /\ error = "Parse error"
  /\ runs = <<>> /\ calls = <<>>
  /\ logs = <<RenderFailedEntry("Parse error")>>

\* C12 as stated: from every reachable scale, zoomIn immediately followed by
\* zoomOut gives the scale zoomIn was pressed at.
C12_ZoomRoundTrip ==
  [][(emitted[1] = "zoomIn" /\ emitted'[1] = "zoomOut") =>
       scale' = emitted[2]
    ]_vars

\* C12 amended: the round trip holds from every reachable scale s whose
\* enlargement s * 1.2 does not exceed the upper bound 5.0.
C12_ZoomRoundTripBelowClamp ==
  [][(/\ emitted[1] = "zoomIn"
      /\ emitted'[1] = "zoomOut"
      /\ RatLeq(RatMul(emitted[2], ZoomFactor), MaxScale)) =>
       scale' = emitted[2]
    ]_vars

\* C12 witness: two zoom operations since the reset, the second one zoomOut
\* pressed at 1.2 (so the first was zoomIn at 1), and the scale is 1 again.
C12_Witness ==
  /\ emitted = <<"zoomOut", <<6, 5>>>>
  /\ zooms = 2
  /\ scale = One

\* C13: a pointer-down at p0 with offset o0 opens a session and records the
\* anchor p0 - o0 without moving the view; the anchor stays as recorded
\* until the next pointer-down; a move is applied only in an open session
\* and sets the offset to p - anchor on both axes, whatever the value,
\* leaving the scale and the session as they are.
C13_DragFollowsPointer ==
  [][ /\ emitted'[1] = "mouseDown" =>
            /\ isDragging'
            /\ dragStart' = [x |-> emitted'[2].x - pan.x,
                             y |-> emitted'[2].y - pan.y]
            /\ UNCHANGED <<pan, scale>>
      /\ emitted'[1] # "mouseDown" => dragStart' = dragStart
      /\ emitted'[1] = "mouseMove" =>
            /\ isDragging /\ isDragging'
            /\ pan' = [x |-> emitted'[2].x - dragStart.x,
                       y |-> emitted'[2].y - dragStart.y]
            /\ scale' = scale
    ]_vars

\* C13 witness: in an open session anchored at a nonzero offset difference,
\* a move to the pointer (0, 0) has just put the offset at (1, 2) in a
\* zoomed view.
C13_Witness ==
  /\ emitted = <<"mouseMove", [x |-> 0, y |-> 0]>>
  /\ isDragging
  /\ dragStart = [x |-> -1, y |-> -2]
  /\ pan = [x |-> 1, y |-> 2]
  /\ scale # One

\* C14: pointer-up / pointer-leave always leaves the session closed and the
\* transform as it was, also when no session was open (then nothing changes
\* at all); a move with no session open changes neither the transform nor
\* the session.
C14_DragEndIdempotent ==
  [][ /\ emitted'[1] = "mouseUp" =>
            /\ ~isDragging'
            /\ UNCHANGED <<pan, scale, dragStart>>
      /\ (emitted'[1] = "mouseUp" /\ ~isDragging /\ emitted = <<"mouseUp">>) =>
            UNCHANGED vars
      /\ (~isDragging /\ emitted'[1] \in {"mouseMove", "ignored"}) =>
            /\ emitted' = <<"ignored", "handleMouseMove">>
            /\ UNCHANGED <<pan, scale, isDragging, dragStart>>
    ]_vars

\* C14 witness: the session is closed after a pointer-up, with the view
\* where the drag and the zoom left it.
C14_Witness ==
  /\ emitted = <<"mouseUp">>
  /\ ~isDragging
  /\ pan # Origin /\ scale # One

\* C15: a reset leaves the transform exactly {0, 0, 1}, whatever came
\* before and whether or not a drag session is open.
C15_ResetExact ==
  [][emitted'[1] = "resetView" =>
       (pan' = [x |-> 0, y |-> 0] /\ scale' = <<1, 1>>)
    ]_vars

\* C15 witness: the reset was pressed during an open drag session whose
\* anchor shows the view had been moved.
C15_Witness ==
  /\ emitted = <<"resetView">>
  /\ isDragging /\ dragStart # Origin
  /\ pan = Origin /\ scale = One

\* the part of the state a viewport event must leave alone
C16_Untouched ==
  /\ UNCHANGED <<code, svgContent, error, logs, runs, calls, isProcessing>>
  /\ started' = 0

\* C16: in every reachable state with the renderer displayed (whatever
\* compile runs and service calls are outstanding) each viewport event,
\* pointer down / move / up, wheel, zoomIn, zoomOut and reset, can be
\* handled, and handling it leaves the source, the artifact, the error, the
\* log, the compile runs, the service calls and the processing flag
\* unchanged and starts no compile.
C16_ViewportIndependent ==
  RendererMounted =>
    /\ \A p \in Pointers : ENABLED (handleMouseDown(p) /\ C16_Untouched)
    /\ \A p \in Pointers : ENABLED (handleMouseMove(p) /\ C16_Untouched)
    /\ ENABLED (handleMouseUp /\ C16_Untouched)
    /\ \A d \in WheelDeltas : ENABLED (handleWheel(d) /\ C16_Untouched)
    /\ ENABLED (zoomIn /\ C16_Untouched)
    /\ ENABLED (zoomOut /\ C16_Untouched)
    /\ ENABLED (resetView /\ C16_Untouched)

\* C16 witness: the view was zoomed while a compile run of the current
\* source and a correction call were both outstanding.
C16_Witness ==
  /\ emitted[1] = "zoomIn"
  /\ scale # One
  /\ calls # <<>> /\ isProcessing
  /\ \E i \in 1..Len(runs) : runs[i].isMounted

\* C17: whenever the validate step or the render step of a pending run
\* settles with a thrown value, a run that is still current turns it into
\* the error state (a non-empty message), a failure notification with that
\* message and its log entry, and a stale run drops it: no notification and
\* source, error, log, artifact and viewport unchanged.
C17_FailuresConverted ==
  [][\A i \in 1..Len(runs) :
       LET thrown == IF runs[i].stage = "parse"
                       THEN mermaidParse(runs[i].code)
                       ELSE mermaidRender(runs[i].code)
       IN  ((ParseSettled(i) \/ RenderSettled(i)) /\ thrown # NoThrow) =>
             IF runs[i].isMounted
               THEN /\ emitted'[1] = "error"
                    /\ emitted'[2] # ""
                    /\ error' = emitted'[2]
                    /\ logs' = Append(logs, RenderFailedEntry(emitted'[2]))
               ELSE /\ emitted' = <<"discarded">>
                    /\ UNCHANGED <<code, error, logs, svgContent, pan, scale>>
    ]_vars

\* C17 witness: a failure of the render step (an object, not an Error) has
\* just been reported for the current source.
C17_Witness ==
  /\ emitted = <<"error", "Render error">>
  /\ code = <<"R">>
  /\ error = "Render error"
  /\ logs = <<RenderFailedEntry("Render error")>>

\* C18: for every kind of thrown value the error message of a current run
\* is the value's message field if it has one, otherwise its string form
\* (the thrown string itself, or the str text the engine attaches),
\* otherwise "Unknown rendering error".
C18_MessageSelection ==
  [][\A i \in 1..Len(runs) :
       LET thrown == IF runs[i].stage = "parse"
                       THEN mermaidParse(runs[i].code)
                       ELSE mermaidRender(runs[i].code)
           claimed == IF thrown.message # "" THEN thrown.message
                      ELSE IF thrown.str # "" THEN thrown.str
                      ELSE "Unknown rendering error"
       IN  (/\ ParseSettled(i) \/ RenderSettled(i)
            /\ thrown # NoThrow
            /\ runs[i].isMounted) =>
             error' = claimed
    ]_vars

\* C19: the text a resolved service call puts into the source is obtained
\* from the response as follows: with t the response without its
\* surrounding whitespace, lead the opening marker t begins with (the
\* tagged one, else the bare one, else nothing) and trail the closing
\* marker the rest of t ends with (or nothing), t is lead, inner, trail and
\* the source is inner without its surrounding whitespace; without markers
\* the source is the response without its surrounding whitespace.
C19_FencesStripped ==
  [][emitted'[1] = "response" =>
       LET text == emitted'[2]
           Blank(s, from, to) == \A k \in from..to : s[k] \in {" ", "\n"}
           \* s[i..j] is s without its surrounding whitespace
           IsTrimAt(s, i, j) ==
             /\ i <= j + 1
             /\ Blank(s, 1, i - 1) /\ Blank(s, j + 1, Len(s))
             /\ i <= j => (~Blank(s, i, i) /\ ~Blank(s, j, j))
           IsTrimOf(r, s) ==
             \E i \in 1..Len(s) + 1, j \in 0..Len(s) :
               IsTrimAt(s, i, j) /\ r = SubSeq(s, i, j)
           Begins(s, q) == Len(s) >= Len(q) /\ \A k \in 1..Len(q) : s[k] = q[k]
           Ends(s, q) ==
             Len(s) >= Len(q) /\ \A k \in 1..Len(q) : s[Len(s) - Len(q) + k] = q[k]
           tagged == <<"~", "~", "~", "m", "e", "r", "m", "a", "i", "d">>
           bare == <<"~", "~", "~">>
       IN  \E a \in 1..Len(text) + 1, b \in 0..Len(text) :
             /\ IsTrimAt(text, a, b)
             /\ LET t == SubSeq(text, a, b)
                    lead == IF Begins(t, tagged) THEN tagged
                            ELSE IF Begins(t, bare) THEN bare ELSE <<>>
                    rest == SubSeq(t, Len(lead) + 1, Len(t))
                    trail == IF Ends(rest, bare) THEN bare ELSE <<>>
                    inner == SubSeq(rest, 1, Len(rest) - Len(trail))
                IN  /\ t = lead \o inner \o trail
                    /\ IsTrimOf(code', inner)
                    /\ (lead = <<>> /\ trail = <<>>) => code' = t
    ]_vars

\* C19 witness: a response with leading whitespace, the tagged opening
\* marker, an inner text with inner and surrounding whitespace, the closing
\* marker and a final newline has been cleaned to the inner text.
C19_Witness ==
  /\ emitted = <<"response",
                 <<" ">> \o FenceMermaid \o <<"\n", "A", " ", "A", "\n">>
                     \o Fence \o <<"\n">> >>
  /\ code = <<"A", " ", "A">>

\* C20: a change of the source to a non-blank text starts exactly one
\* compile run (with the renderer displayed), and a compile run is started
\* by nothing else than a change of the source (or the renderer being put on
\* display): not by a notification setting or clearing the error, not by a
\* log append, not by a viewport event.
C20_OneRunPerChange ==
  [][ /\ (code' # code /\ Trim(code') # <<>> /\ RendererMounted) =>
            started' = 1
      /\ started' > 0 => (code' # code \/ viewMode' # viewMode)
    ]_vars

\* C21: compile calls to the render engine are serialized: in every
\* reachable state at most one renderDiagram invocation is awaiting
\* mermaid.parse or mermaid.render, stale invocations included (a superseded
\* request does not run next to the newer one).
C21_CompileSerialized == Len(runs) <= 1

\* C22: when every compile call eventually resolves (the engine gives the
\* same outcome for the same text), then from the moment the source (and the
\* layout hosting the renderer) stops changing, only finitely many compile
\* runs are started and the pipeline stays in a quiescent state: no compile
\* in flight, no run started, and, for a mounted renderer with a non-blank
\* source, the artifact/error are the outcome of compiling that source.  The
\* feedback between the error state and the notification callbacks does not
\* loop.
C22_ReachesQuiescence ==
  LET thrown(c) == IF mermaidParse(c) # NoThrow THEN mermaidParse(c)
                   ELSE mermaidRender(c)
      Reflects ==
        (RendererMounted /\ Trim(code) # <<>>) =>
           IF thrown(code) = NoThrow
             THEN /\ svgContent = StripMaxWidth(RenderedSvg(code))
                  /\ error = null
             ELSE error = CatchMessage(thrown(code))
  IN  (<>[][UNCHANGED <<code, viewMode>>]_vars) =>
         <>[](runs = <<>> /\ started = 0 /\ Reflects)

\* C22 witness: the source X failed, the change of error re-ran the effect,
\* and the second compile of X has just reported the same failure without
\* starting another run: nothing is in flight.
C22_Witness ==
  /\ RendererMounted
  /\ code = <<"X">>
  /\ emitted = <<"error", "Parse error">>
  /\ error = "Parse error"
  /\ runs = <<>>
  /\ started = 0

\* C23: the processing flag is set by the step that starts a fixMermaidCode
\* or generateMermaidCode call and cleared by every step in which such a
\* call resolves, by success or by failure; it is true only while a call is
\* outstanding (so it cannot stay stuck), and false in every state with no
\* call outstanding.
C23_ProcessingFlag ==
  /\ [](calls = <<>> => ~isProcessing)
  /\ [][ /\ Len(calls') > Len(calls) => isProcessing'
         /\ Len(calls') < Len(calls) => ~isProcessing'
         /\ isProcessing' # isProcessing => Len(calls') # Len(calls)
      ]_vars

\* C23 witness: a correction call was started from the error toast, it was
\* rejected by the service, and the flag is false again with no call
\* outstanding and the error still set.
C23_Witness ==
  /\ calls = <<>>
  /\ ~isProcessing
  /\ logs = <<FixFailedEntry("quota exceeded")>>
  /\ error # null

====
